---- MODULE Spec2Model ----
(***************************************************************************)
(* Model of the OCI instance hunter (create_instance.py).                  *)
(*                                                                         *)
(* A hunter run is a sequential program; the model follows main() step by  *)
(* step.  The state of a run is the record proc[p]; the on-disk sentinel   *)
(* FLAG_FILE and the provider's instance list (cloud) are shared.          *)
(* Names of zones, fault domains and instances are numbers; 0 stands       *)
(* for Python's None (or an empty, falsy string).                          *)
(***************************************************************************)
EXTENDS Integers, Sequences, FiniteSets, TLC

\* ---------------------------------------------------------------- bounds
MaxZones == 2          \* availability domains the region can have
MaxFaultDomains == 2   \* fault domains a zone can have
MaxInstances == 2      \* instances of the display name present at start
MaxFragments == 2      \* fragments an error message is built from
MaxRuns == 3           \* runs made one after the other

Procs == {1, 2}

ZoneNames == 1..MaxZones
None == 0

\* ------------------------------------------------------------- sequences
RECURSIVE SeqsUpTo(_, _)
\* all sequences over S of length at most n
SeqsUpTo(S, n) ==
    IF n = 0 THEN {<< >>}
    ELSE LET shorter == SeqsUpTo(S, n - 1)
         IN  shorter \cup {Append(s, x) : s \in {t \in shorter : Len(t) = n - 1}, x \in S}

Distinct(s) == \A i, j \in DOMAIN s : i # j => s[i] # s[j]

\* the lists a list_* call of the provider can return: up to n distinct
\* names, a name being the position the provider lists it at
NameLists(n) == {[i \in 1..k |-> i] : k \in 0..n}

RECURSIVE Concat(_)
Concat(ss) == IF ss = << >> THEN << >> ELSE Head(ss) \o Concat(Tail(ss))

\* ------------------------------------------------------- error messages
\* A message is a sequence of one-character strings.
Fragments ==
    { <<"C","a","p","a">>, <<"c","I","T","Y">>, <<"Q","u","o","t","a">>,
      <<"l","i","m","I","T">>, <<" ">>, <<"c","a","p","a","c","i","t","y">>,
      <<"O","u","t"," ","o","f"," ","h","o","s","t"," ">> }

\* e.message of a ServiceError: a text, or None
MessageTexts == {Concat(fs) : fs \in SeqsUpTo(Fragments, MaxFragments)}
Messages == [is_none : {FALSE}, text : MessageTexts]
                \cup {[is_none |-> TRUE, text |-> << >>]}

\* one message of each class, for the runs that do not vary the wording
CoreMessages ==
    [is_none : {FALSE},
     text : { <<"c","a","p","a","c","i","t","y">>, <<"Q","u","o","t","a">>, <<" ">> }]

\* str(x)
Str(m) == IF m.is_none THEN <<"N","o","n","e">> ELSE m.text

LowerChar(c) ==
    CASE c = "A" -> "a" [] c = "B" -> "b" [] c = "C" -> "c" [] c = "D" -> "d"
      [] c = "E" -> "e" [] c = "F" -> "f" [] c = "G" -> "g" [] c = "H" -> "h"
      [] c = "I" -> "i" [] c = "J" -> "j" [] c = "K" -> "k" [] c = "L" -> "l"
      [] c = "M" -> "m" [] c = "N" -> "n" [] c = "O" -> "o" [] c = "P" -> "p"
      [] c = "Q" -> "q" [] c = "R" -> "r" [] c = "S" -> "s" [] c = "T" -> "t"
      [] c = "U" -> "u" [] c = "V" -> "v" [] c = "W" -> "w" [] c = "X" -> "x"
      [] c = "Y" -> "y" [] c = "Z" -> "z" [] OTHER -> c

\* str.lower()
Lower(s) == [i \in 1..Len(s) |-> LowerChar(s[i])]

\* sub in s
Contains(sub, s) ==
    \E i \in 0..(Len(s) - Len(sub)) : SubSeq(s, i + 1, i + Len(sub)) = sub

W_capacity == <<"c","a","p","a","c","i","t","y">>
W_out_of_host_capacity ==
    <<"o","u","t"," ","o","f"," ","h","o","s","t"," ">> \o W_capacity
W_quota == <<"q","u","o","t","a">>
W_limit == <<"l","i","m","i","t">>

\* Classify with the quota rule evaluated before the capacity rule
Classify_QuotaFirst(message) ==
    LET error_msg == Lower(Str(message))
    IN  IF Contains(W_quota, error_msg) \/ Contains(W_limit, error_msg)
        THEN "quota"
        ELSE IF Contains(W_capacity, error_msg)
                \/ Contains(W_out_of_host_capacity, error_msg)
        THEN "capacity"
        ELSE "other"

\* Classify whose quota rule lacks the 'limit' alternative
Classify_QuotaOnly(message) ==
    LET error_msg == Lower(Str(message))
    IN  IF Contains(W_capacity, error_msg)
           \/ Contains(W_out_of_host_capacity, error_msg)
        THEN "capacity"
        ELSE IF Contains(W_quota, error_msg)
        THEN "quota"
        ELSE "other"

\* the except-ServiceError branch of create_instance: message -> error_type
Classify(message) ==
    LET error_msg == Lower(Str(message))
    IN  IF Contains(W_capacity, error_msg)
           \/ Contains(W_out_of_host_capacity, error_msg)
        THEN "capacity"
        ELSE IF Contains(W_quota, error_msg) \/ Contains(W_limit, error_msg)
        THEN "quota"
        ELSE "other"

\* ------------------------------------------------------------------ state
VARIABLES
    proc,       \* proc[p]: the local state of hunter run p (see StartProc)
    FLAG_FILE,  \* the sentinel file PROJECT_ROOT/.instance_created
    cloud       \* the provider's instances bearing the configured display name

vars == <<proc, FLAG_FILE, cloud>>

NoFile == [exists |-> FALSE, instance_id |-> None]
FlagContent(id) == [exists |-> TRUE, instance_id |-> id]

NoInstance == [id |-> None, lifecycle_state |-> "None"]
StartStates == {"RUNNING", "TERMINATING", "TERMINATED"}

\* the instance lists that can be present when a run starts; instance k has id k
StartClouds ==
    UNION { {[i \in 1..n |-> [id |-> i, lifecycle_state |-> st[i]]] :
                st \in [1..n -> StartStates]} : n \in 0..MaxInstances }

Args == [no_cycle : BOOLEAN, dry_run : BOOLEAN, force : BOOLEAN]

\* what load_config() reads from .env: the three settings main() branches on
Configs == [key_file : {None, 1}, ssh_key_file : {None, 1},
            availability_domain : {None} \cup ZoneNames]
NoConfig == [key_file |-> None, ssh_key_file |-> None, availability_domain |-> None]

Call(op, ad, fd, res) == [op |-> op, ad |-> ad, fd |-> fd, res |-> res]

\* a run that has parsed its arguments and stands before the flag check
StartProc(args) ==
    [ pc |-> "check_flag",
      args |-> args,
      config |-> NoConfig,
      existing_instance |-> NoInstance,
      availability_domains |-> << >>,
      ad_i |-> 0,                \* position of `ad` in availability_domains
      fault_domains |-> << >>,
      attempts |-> << >>,
      fd_i |-> 0,                \* position of `fd` in attempts
      total_attempts |-> 0,
      capacity_errors |-> 0,
      success |-> FALSE,         \* create_instance's last return value
      instance |-> NoInstance,
      error_type |-> "None",
      response |-> [kind |-> "None", message |-> [is_none |-> TRUE, text |-> << >>]],
                                 \* what the last create_instance call met
      exit_code |-> -1,
      ended |-> "running",       \* the return site the run ended at
      recommended |-> FALSE,     \* the retry-later recommendation was logged
      flag_at_start |-> FALSE,   \* FLAG_FILE.exists() as read by the flag check
      flag_writes |-> << >>,     \* outcomes of the create_success_flag calls
      calls |-> << >>,           \* provider calls, creation attempts and sleeps, in order
      fd_lists |-> << >>,        \* what get_fault_domains returned, per zone visited
      interrupted_at |-> "none", \* the step a KeyboardInterrupt was raised in
      swallowed |-> FALSE,       \* an except clause inside main() caught it
      earlier |-> [runs |-> 0, written |-> FALSE, launches_since |-> 0],
                                 \* the runs made before this one in the same directory
      answers |-> << >>,         \* what the environment and the provider answered, in order
      flag_before |-> NoFile ]   \* FLAG_FILE as the run met it

IdleProc == [StartProc([no_cycle |-> FALSE, dry_run |-> FALSE, force |-> FALSE])
                EXCEPT !.pc = "idle"]

Set(p, r) == proc' = [proc EXCEPT ![p] = r]

\* return code / sys.exit(code) / an exception reaching the __main__ handler
Exit(r, code, site) == [r EXCEPT !.pc = "exit", !.exit_code = code, !.ended = site]

Log(r, c) == [r EXCEPT !.calls = Append(@, c)]

\* an answer the run got: from .env, the file system or a provider call
Answer(kind, ok) ==
    [kind |-> kind, ok |-> ok, names |-> << >>, instances |-> << >>,
     config |-> NoConfig,
     response |-> [kind |-> "None", message |-> [is_none |-> TRUE, text |-> << >>]]]

Hear(r, a) == [r EXCEPT !.answers = Append(@, a)]

Init ==
    /\ \E args \in Args :
         proc = [p \in Procs |-> IF p = 1 THEN StartProc(args) ELSE IdleProc]
    /\ FLAG_FILE \in {NoFile, FlagContent(1)}
    /\ cloud \in StartClouds

\* --------------------------------------------------------------- helpers
\* FlagGate with the force test inverted
FlagGate_ForceInverted(exists, force) == exists /\ force

\* FlagGate that does not look at --force
FlagGate_IgnoresForce(exists, force) == exists

\* FlagGate of a script without the flag check
FlagGate_Never(exists, force) == FALSE

\* line 354: FLAG_FILE.exists() and not args.force
FlagGate(exists, force) == exists /\ ~force

\* FLAG_FILE.write_text(...) inside try/except: the text is written, or the
\* write raises and leaves the file as it was or opened-and-truncated
WriteOutcomes == {"written", "failed", "truncated"}

\* create_success_flag that writes the file without the instance id
create_success_flag_NoId(instance_id, outcome) ==
    CASE outcome = "written" -> FlagContent(None)
      [] outcome = "truncated" -> FlagContent(None)
      [] OTHER -> FLAG_FILE

create_success_flag(instance_id, outcome) ==
    CASE outcome = "written" -> FlagContent(instance_id)
      [] outcome = "truncated" -> FlagContent(None)
      [] OTHER -> FLAG_FILE

\* DryRunGate that never takes the dry-run exit
DryRunGate_Off(dry_run) == FALSE

\* lines 418-421: if args.dry_run: return 0
DryRunGate(dry_run) == dry_run

\* ActiveInstances that leaves out the TERMINATED instances only
ActiveInstances_TerminatedOnly(instances) ==
    SelectSeq(instances, LAMBDA i : i.lifecycle_state \notin {"TERMINATED"})

\* lines 170-173: the non-terminated instances, in list order
ActiveInstances(instances) ==
    SelectSeq(instances, LAMBDA i : i.lifecycle_state \notin {"TERMINATED", "TERMINATING"})

\* check_if_instance_exists that reports an instance when the lookup failed
check_if_instance_exists_ErrorMeansExists(raised, instances) ==
    IF raised THEN [id |-> None, lifecycle_state |-> "UNKNOWN"]
    ELSE IF ActiveInstances(instances) # << >> THEN ActiveInstances(instances)[1]
    ELSE NoInstance

\* check_if_instance_exists: the first active instance, or None (also on error)
check_if_instance_exists(raised, instances) ==
    IF raised THEN NoInstance
    ELSE IF ActiveInstances(instances) # << >> THEN ActiveInstances(instances)[1]
    ELSE NoInstance

\* AttemptSequence with the unpinned attempt last
AttemptSequence_PinnedFirst(fault_domains) == fault_domains \o <<None>>

\* line 464: attempts = [None] + fault_domains
AttemptSequence(fault_domains) == <<None>> \o fault_domains

\* line 513: the condition guarding time.sleep(1)
SleepCondition(total_attempts, availability_domains, fault_domains) ==
    total_attempts < Len(availability_domains) * (1 + Len(fault_domains))

\* Advance that leaves the outer loop after the first zone
Advance_LeavesAfterZone(r) ==
    IF r.fd_i < Len(r.attempts)
    THEN [r EXCEPT !.fd_i = @ + 1, !.pc = "attempt"]
    ELSE [r EXCEPT !.ad_i = Len(r.availability_domains) + 1, !.pc = "for_ad"]

\* Advance that runs through the first zone a second time
Advance_RepeatsFirstZone(r) ==
    IF r.fd_i < Len(r.attempts)
    THEN [r EXCEPT !.fd_i = @ + 1, !.pc = "attempt"]
    ELSE IF r.total_attempts = Len(r.attempts)
    THEN [r EXCEPT !.fd_i = 1, !.pc = "attempt"]
    ELSE [r EXCEPT !.ad_i = @ + 1, !.pc = "for_ad"]

\* the next position of the nested for loops after the body ran to its end
Advance(r) ==
    IF r.fd_i < Len(r.attempts)
    THEN [r EXCEPT !.fd_i = @ + 1, !.pc = "attempt"]
    ELSE [r EXCEPT !.ad_i = @ + 1, !.pc = "for_ad"]

\* ---------------------------------------------------------------- actions
\* CheckFlag of a script that holds a lock file from the flag check to its end
CheckFlag_HoldsLock(p) ==
    LET r == [proc[p] EXCEPT !.flag_at_start = FLAG_FILE.exists,
                             !.flag_before = FLAG_FILE] IN
    /\ proc[p].pc = "check_flag"
    /\ \A q \in Procs \ {p} : proc[q].pc \in {"idle", "check_flag", "exit"}
    /\ IF FlagGate(FLAG_FILE.exists, r.args.force)
       THEN Set(p, Exit(r, 0, "flag_exists"))
       ELSE Set(p, [r EXCEPT !.pc = "load_config"])
    /\ UNCHANGED <<FLAG_FILE, cloud>>

\* lines 353-364: the flag check
CheckFlag(p) ==
    LET r == [proc[p] EXCEPT !.flag_at_start = FLAG_FILE.exists,
                             !.flag_before = FLAG_FILE] IN
    /\ proc[p].pc = "check_flag"
    /\ IF FlagGate(FLAG_FILE.exists, r.args.force)
       THEN Set(p, Exit(r, 0, "flag_exists"))
       ELSE Set(p, [r EXCEPT !.pc = "load_config"])
    /\ UNCHANGED <<FLAG_FILE, cloud>>

\* lines 366-377: load_config() exits 1 without .env; create_oci_config()
\* raises TypeError on Path(None), which the __main__ handler turns into 1
LoadConfig(p) ==
    /\ proc[p].pc = "load_config"
    /\ \E env_exists \in BOOLEAN, config \in Configs :
         LET r == Hear(proc[p], [Answer(".env", env_exists) EXCEPT !.config = config]) IN
         IF ~env_exists
         THEN /\ config = NoConfig
              /\ Set(p, Exit(r, 1, "no_env"))
         ELSE IF config.key_file = None
         THEN Set(p, Exit([r EXCEPT !.config = config], 1, "key_file_none"))
         ELSE Set(p, [r EXCEPT !.config = config, !.pc = "load_ssh"])
    /\ UNCHANGED <<FLAG_FILE, cloud>>

\* lines 379-385 with load_ssh_public_key: Path(None) raises TypeError (not
\* caught here), a missing file raises FileNotFoundError (return 1)
LoadSsh(p) ==
    /\ proc[p].pc = "load_ssh"
    /\ \E file_exists \in BOOLEAN :
         LET r == Hear(proc[p], Answer("ssh_key_file", file_exists)) IN
         IF proc[p].config.ssh_key_file = None
         THEN /\ file_exists = FALSE
              /\ Set(p, Exit(r, 1, "ssh_key_none"))
         ELSE IF ~file_exists
         THEN Set(p, Exit(r, 1, "ssh_key_error"))
         ELSE Set(p, [r EXCEPT !.pc = "init_clients"])
    /\ UNCHANGED <<FLAG_FILE, cloud>>

\* lines 387-395: the two SDK clients are constructed, or return 1
InitClients(p) ==
    /\ proc[p].pc = "init_clients"
    /\ \E raised \in BOOLEAN :
         LET r == Hear(proc[p], Answer("clients", ~raised)) IN
         IF raised
         THEN Set(p, Exit(r, 1, "client_init"))
         ELSE Set(p, [r EXCEPT !.pc = "check_existing"])
    /\ UNCHANGED <<FLAG_FILE, cloud>>

\* CheckExisting that writes the flag file whether or not it exists
CheckExisting_AlwaysWrites(p) ==
    /\ proc[p].pc = "check_existing"
    /\ \E raised \in BOOLEAN, outcome \in WriteOutcomes :
         LET found == check_if_instance_exists(raised, cloud)
             r == Hear(Log([proc[p] EXCEPT !.existing_instance = found],
                           Call("list_instances", None, None,
                                IF raised THEN "raised" ELSE "ok")),
                       [Answer("list_instances", ~raised) EXCEPT
                            !.instances = IF raised THEN << >> ELSE cloud])
         IN  IF found # NoInstance
             THEN /\ FLAG_FILE' = create_success_flag(found.id, outcome)
                  /\ Set(p, Exit([r EXCEPT !.flag_writes = Append(@, outcome)],
                                 0, "instance_exists"))
             ELSE /\ outcome = "written"
                  /\ UNCHANGED FLAG_FILE
                  /\ IF DryRunGate(r.args.dry_run)
                     THEN Set(p, Exit(r, 0, "dry_run"))
                     ELSE Set(p, [r EXCEPT !.pc = "select_ads"])
    /\ UNCHANGED cloud

\* CheckExisting that takes the dry-run exit before it looks for an instance
CheckExisting_DryRunFirst(p) ==
    /\ proc[p].pc = "check_existing"
    /\ IF DryRunGate(proc[p].args.dry_run)
       THEN /\ Set(p, Exit(proc[p], 0, "dry_run"))
            /\ UNCHANGED FLAG_FILE
       ELSE \E raised \in BOOLEAN, outcome \in WriteOutcomes :
              LET found == check_if_instance_exists(raised, cloud)
                  r == Hear(Log([proc[p] EXCEPT !.existing_instance = found],
                                Call("list_instances", None, None,
                                     IF raised THEN "raised" ELSE "ok")),
                            [Answer("list_instances", ~raised) EXCEPT
                                 !.instances = IF raised THEN << >> ELSE cloud])
              IN  IF found # NoInstance
                  THEN IF ~FLAG_FILE.exists
                       THEN /\ FLAG_FILE' = create_success_flag(found.id, outcome)
                            /\ Set(p, Exit([r EXCEPT !.flag_writes = Append(@, outcome)],
                                           0, "instance_exists"))
                       ELSE /\ outcome = "written"
                            /\ UNCHANGED FLAG_FILE
                            /\ Set(p, Exit(r, 0, "instance_exists"))
                  ELSE /\ outcome = "written"
                       /\ UNCHANGED FLAG_FILE
                       /\ Set(p, [r EXCEPT !.pc = "select_ads"])
    /\ UNCHANGED cloud

\* lines 397-421: the existing-instance check, then the dry-run exit
CheckExisting(p) ==
    /\ proc[p].pc = "check_existing"
    /\ \E raised \in BOOLEAN, outcome \in WriteOutcomes :
         LET found == check_if_instance_exists(raised, cloud)
             r == Hear(Log([proc[p] EXCEPT !.existing_instance = found],
                           Call("list_instances", None, None,
                                IF raised THEN "raised" ELSE "ok")),
                       [Answer("list_instances", ~raised) EXCEPT
                            !.instances = IF raised THEN << >> ELSE cloud])
         IN  IF found # NoInstance
             THEN IF ~FLAG_FILE.exists
                  THEN /\ FLAG_FILE' = create_success_flag(found.id, outcome)
                       /\ Set(p, Exit([r EXCEPT !.flag_writes = Append(@, outcome)],
                                      0, "instance_exists"))
                  ELSE /\ outcome = "written"
                       /\ UNCHANGED FLAG_FILE
                       /\ Set(p, Exit(r, 0, "instance_exists"))
             ELSE /\ outcome = "written"
                  /\ UNCHANGED FLAG_FILE
                  /\ IF DryRunGate(r.args.dry_run)
                     THEN Set(p, Exit(r, 0, "dry_run"))
                     ELSE Set(p, [r EXCEPT !.pc = "select_ads"])
    /\ UNCHANGED cloud

\* get_all_availability_domains that falls back to the first zone on error
get_all_availability_domains_Fallback(raised, ad_names) ==
    IF raised THEN <<1>> ELSE ad_names

\* get_all_availability_domains: the names the provider lists, [] on error
get_all_availability_domains(raised, ad_names) == IF raised THEN << >> ELSE ad_names

\* SelectAds that uses the configured zone only when --no-cycle is given
SelectAds_NoCycleOnly(p) ==
    LET r == proc[p] IN
    /\ r.pc = "select_ads"
    /\ IF r.args.no_cycle
       THEN IF r.config.availability_domain # None
            THEN Set(p, [r EXCEPT !.availability_domains = <<r.config.availability_domain>>,
                                  !.ad_i = 1, !.pc = "for_ad"])
            ELSE Set(p, Exit(r, 1, "no_ad_specified"))
       ELSE \E raised \in BOOLEAN, ad_names \in NameLists(MaxZones) :
              LET ads == get_all_availability_domains(raised, ad_names)
                  r2 == Hear(Log(r, Call("list_availability_domains", None, None,
                                         IF raised THEN "raised"
                                         ELSE IF ad_names = << >> THEN "empty" ELSE "ok")),
                             [Answer("list_availability_domains", ~raised) EXCEPT
                                  !.names = ad_names])
              IN  /\ raised => ad_names = << >>
                  /\ IF ads = << >>
                     THEN Set(p, Exit(r2, 1, "no_ads"))
                     ELSE Set(p, [r2 EXCEPT !.availability_domains = ads,
                                            !.ad_i = 1, !.pc = "for_ad"])
    /\ UNCHANGED <<FLAG_FILE, cloud>>

\* lines 423-442: the zones to try
SelectAds(p) ==
    LET r == proc[p] IN
    /\ r.pc = "select_ads"
    /\ IF r.args.no_cycle \/ r.config.availability_domain # None
       THEN IF r.config.availability_domain # None
            THEN Set(p, [r EXCEPT !.availability_domains = <<r.config.availability_domain>>,
                                  !.ad_i = 1, !.pc = "for_ad"])
            ELSE Set(p, Exit(r, 1, "no_ad_specified"))
       ELSE \E raised \in BOOLEAN, ad_names \in NameLists(MaxZones) :
              LET ads == get_all_availability_domains(raised, ad_names)
                  r2 == Hear(Log(r, Call("list_availability_domains", None, None,
                                         IF raised THEN "raised"
                                         ELSE IF ad_names = << >> THEN "empty" ELSE "ok")),
                             [Answer("list_availability_domains", ~raised) EXCEPT
                                  !.names = ad_names])
              IN  /\ raised => ad_names = << >>
                  /\ IF ads = << >>
                     THEN Set(p, Exit(r2, 1, "no_ads"))
                     ELSE Set(p, [r2 EXCEPT !.availability_domains = ads,
                                            !.ad_i = 1, !.pc = "for_ad"])
    /\ UNCHANGED <<FLAG_FILE, cloud>>

\* get_fault_domains: the names the provider lists, [] on error
get_fault_domains(raised, fd_names) == IF raised THEN << >> ELSE fd_names

\* ForAd that skips a zone whose fault domains could not be listed
ForAd_SkipsOnError(p) ==
    LET r == proc[p] IN
    /\ r.pc = "for_ad"
    /\ r.ad_i <= Len(r.availability_domains)
    /\ \E raised \in BOOLEAN, fd_names \in NameLists(MaxFaultDomains) :
         LET fds == get_fault_domains(raised, fd_names)
             r2 == Hear(Log(r, Call("list_fault_domains", r.availability_domains[r.ad_i],
                                    None, IF raised THEN "raised" ELSE "ok")),
                        [Answer("list_fault_domains", ~raised) EXCEPT !.names = fd_names])
         IN  /\ raised => fd_names = << >>
             /\ IF raised
                THEN Set(p, [r2 EXCEPT !.fd_lists = Append(@, fds), !.ad_i = @ + 1])
                ELSE Set(p, [r2 EXCEPT !.fault_domains = fds,
                                       !.attempts = AttemptSequence(fds),
                                       !.fd_i = 1,
                                       !.fd_lists = Append(@, fds),
                                       !.pc = "attempt"])
    /\ UNCHANGED <<FLAG_FILE, cloud>>

\* lines 454-464: the head of the outer loop for a zone that remains
ForAd(p) ==
    LET r == proc[p] IN
    /\ r.pc = "for_ad"
    /\ r.ad_i <= Len(r.availability_domains)
    /\ \E raised \in BOOLEAN, fd_names \in NameLists(MaxFaultDomains) :
         LET fds == get_fault_domains(raised, fd_names)
             r2 == Hear(Log(r, Call("list_fault_domains", r.availability_domains[r.ad_i],
                                    None, IF raised THEN "raised" ELSE "ok")),
                        [Answer("list_fault_domains", ~raised) EXCEPT !.names = fd_names])
         IN  /\ raised => fd_names = << >>
             /\ Set(p, [r2 EXCEPT !.fault_domains = fds,
                                  !.attempts = AttemptSequence(fds),
                                  !.fd_i = 1,
                                  !.fd_lists = Append(@, fds),
                                  !.pc = "attempt"])
    /\ UNCHANGED <<FLAG_FILE, cloud>>

\* what one create_instance call can meet: the launch is accepted, the
\* provider answers with a ServiceError, or any other exception is raised
NoMessage == [is_none |-> TRUE, text |-> << >>]
Responses(messages) ==
    {[kind |-> "launched", message |-> NoMessage],
     [kind |-> "exception", message |-> NoMessage]}
    \cup [kind : {"service_error"}, message : messages]

\* lines 228-317: create_instance's return value (success, instance, error_type)
create_instance(response, new_instance) ==
    CASE response.kind = "launched" ->
            [success |-> TRUE, instance |-> new_instance, error_type |-> "None"]
      [] response.kind = "service_error" ->
            [success |-> FALSE, instance |-> NoInstance,
             error_type |-> Classify(response.message)]
      [] OTHER ->
            [success |-> FALSE, instance |-> NoInstance, error_type |-> "other"]

\* HandleResult that counts every failed attempt as a capacity error
HandleResult_CountsAllErrors(r) ==
    IF r.success
    THEN [r EXCEPT !.pc = "success"]
    ELSE LET r2 == [r EXCEPT !.capacity_errors = @ + 1]
         IN  IF r.error_type # "capacity" /\ r.error_type \in {"quota", "other"}
             THEN Exit(r2, 1, "non_capacity")
             ELSE IF SleepCondition(r2.total_attempts, r2.availability_domains,
                                    r2.fault_domains)
             THEN [r2 EXCEPT !.pc = "sleep"]
             ELSE Advance(r2)

\* HandleResult that goes on after every failed attempt
HandleResult_NeverStops(r) ==
    IF r.success
    THEN [r EXCEPT !.pc = "success"]
    ELSE LET r2 == IF r.error_type = "capacity"
                   THEN [r EXCEPT !.capacity_errors = @ + 1]
                   ELSE r
         IN  IF SleepCondition(r2.total_attempts, r2.availability_domains,
                               r2.fault_domains)
             THEN [r2 EXCEPT !.pc = "sleep"]
             ELSE Advance(r2)

\* HandleResult that stops on 'quota' only and goes on after 'other'
HandleResult_OtherContinues(r) ==
    IF r.success
    THEN [r EXCEPT !.pc = "success"]
    ELSE LET r2 == IF r.error_type = "capacity"
                   THEN [r EXCEPT !.capacity_errors = @ + 1]
                   ELSE r
         IN  IF r.error_type = "quota"
             THEN Exit(r2, 1, "non_capacity")
             ELSE IF SleepCondition(r2.total_attempts, r2.availability_domains,
                                    r2.fault_domains)
             THEN [r2 EXCEPT !.pc = "sleep"]
             ELSE Advance(r2)

\* lines 478-514: what the loop body does with create_instance's return value
HandleResult(r) ==
    IF r.success
    THEN [r EXCEPT !.pc = "success"]
    ELSE LET r2 == IF r.error_type = "capacity"
                   THEN [r EXCEPT !.capacity_errors = @ + 1]
                   ELSE r
         IN  IF r.error_type # "capacity" /\ r.error_type \in {"quota", "other"}
             THEN Exit(r2, 1, "non_capacity")
             ELSE IF SleepCondition(r2.total_attempts, r2.availability_domains,
                                    r2.fault_domains)
             THEN [r2 EXCEPT !.pc = "sleep"]
             ELSE Advance(r2)

\* lines 466-514: one pass of the inner loop body, the provider's error
\* messages being drawn from `messages`
AttemptWith(p, messages) ==
    LET r == proc[p]
        ad == r.availability_domains[r.ad_i]
        fd == r.attempts[r.fd_i]
        new_instance == [id |-> Len(cloud) + 1, lifecycle_state |-> "PROVISIONING"]
    IN
    /\ r.pc = "attempt"
    /\ \E response \in Responses(messages) :
         LET ret == create_instance(response, new_instance)
             r1 == [r EXCEPT !.total_attempts = @ + 1,
                             !.success = ret.success,
                             !.instance = ret.instance,
                             !.error_type = ret.error_type,
                             !.response = response]
             r2 == Hear(Log(r1, Call("create_instance", ad, fd,
                                     IF ret.success THEN "success" ELSE ret.error_type)),
                        [Answer("launch_instance", response.kind = "launched") EXCEPT
                             !.response = response])
         IN  /\ Set(p, HandleResult(r2))
             /\ cloud' = IF response.kind = "launched"
                         THEN Append(cloud, new_instance) ELSE cloud
    /\ UNCHANGED FLAG_FILE

Attempt(p) == AttemptWith(p, CoreMessages)

\* Sleep whose time.sleep never returns
Sleep_NeverReturns(p) ==
    /\ proc[p].pc = "sleep"
    /\ UNCHANGED vars

\* line 514: time.sleep(1)
Sleep(p) ==
    /\ proc[p].pc = "sleep"
    /\ Set(p, Advance(Log(proc[p], Call("sleep", None, None, "ok"))))
    /\ UNCHANGED <<FLAG_FILE, cloud>>

\* lines 478-501: the success report and the flag file
Success(p) ==
    /\ proc[p].pc = "success"
    /\ \E outcome \in WriteOutcomes :
         /\ FLAG_FILE' = create_success_flag(proc[p].instance.id, outcome)
         /\ Set(p, Exit([proc[p] EXCEPT !.flag_writes = Append(@, outcome)], 0, "success"))
    /\ UNCHANGED cloud

\* lines 516-535: the outer loop ran out of zones
Exhausted(p) ==
    LET r == proc[p] IN
    /\ r.pc = "for_ad"
    /\ r.ad_i > Len(r.availability_domains)
    /\ Set(p, Exit([r EXCEPT !.recommended = (r.capacity_errors = r.total_attempts)],
                   1, "exhausted"))
    /\ UNCHANGED <<FLAG_FILE, cloud>>

Next ==
    \E p \in Procs :
        \/ CheckFlag(p)
        \/ LoadConfig(p)
        \/ LoadSsh(p)
        \/ InitClients(p)
        \/ CheckExisting(p)
        \/ SelectAds(p)
        \/ ForAd(p)
        \/ Attempt(p)
        \/ Sleep(p)
        \/ Success(p)
        \/ Exhausted(p)

Spec == Init /\ [][Next]_vars

\* ------------------------------------------------- classification runs
\* Runs that vary the wording of the provider's error messages.  They start
\* where a run of Spec stands before its only attempt in a configured zone
\* that has no fault domains (or whose fault-domain listing failed).
ClassifyStart(ad, raised) ==
    [StartProc([no_cycle |-> FALSE, dry_run |-> FALSE, force |-> FALSE]) EXCEPT
        !.config = [key_file |-> 1, ssh_key_file |-> 1, availability_domain |-> ad],
        !.availability_domains = <<ad>>,
        !.ad_i = 1,
        !.fault_domains = << >>,
        !.attempts = <<None>>,
        !.fd_i = 1,
        !.fd_lists = << << >> >>,
        !.calls = << Call("list_instances", None, None, "ok"),
                     Call("list_fault_domains", ad, None,
                          IF raised THEN "raised" ELSE "ok") >>,
        !.answers = << [Answer(".env", TRUE) EXCEPT !.config =
                            [key_file |-> 1, ssh_key_file |-> 1, availability_domain |-> ad]],
                       Answer("ssh_key_file", TRUE),
                       Answer("clients", TRUE),
                       Answer("list_instances", TRUE),
                       Answer("list_fault_domains", ~raised) >>,
        !.pc = "attempt"]

InitClassify ==
    /\ \E ad \in ZoneNames, raised \in BOOLEAN :
         proc = [p \in Procs |-> IF p = 1 THEN ClassifyStart(ad, raised) ELSE IdleProc]
    /\ FLAG_FILE = NoFile
    /\ cloud = << >>

AttemptAnyMessage(p) == AttemptWith(p, Messages)

NextClassify ==
    \E p \in Procs :
        \/ AttemptAnyMessage(p)
        \/ Success(p)
        \/ Exhausted(p)

SpecClassify == InitClassify /\ [][NextClassify]_vars

\* ------------------------------------------------------ runs that go on
\* A started run is a sequential program whose every provider call returns
\* and whose sleep ends: a step that can be taken is taken.
SpecLive == Init /\ [][Next]_vars /\ WF_vars(Next)

\* ------------------------------------------------------ interrupted runs
\* The classes an exception is an instance of.  KeyboardInterrupt derives
\* from BaseException, not from Exception.
Bases(exc) ==
    CASE exc = "KeyboardInterrupt" -> {"KeyboardInterrupt", "BaseException"}
      [] exc = "ServiceError" -> {"ServiceError", "Exception", "BaseException"}
      [] exc = "FileNotFoundError" -> {"FileNotFoundError", "Exception", "BaseException"}
      [] OTHER -> {exc, "Exception", "BaseException"}

Catches(clause, exc) == clause \in Bases(exc)

\* HandlersAt whose creation call is wrapped in a catch-all clause
HandlersAt_CatchAll(pc) ==
    CASE pc = "load_ssh" -> <<"FileNotFoundError">>
      [] pc = "init_clients" -> <<"Exception">>
      [] pc = "check_existing" -> <<"Exception">>
      [] pc = "select_ads" -> <<"Exception">>
      [] pc = "for_ad" -> <<"Exception">>
      [] pc = "attempt" -> <<"ServiceError", "BaseException">>
      [] pc = "success" -> <<"Exception">>
      [] OTHER -> << >>

\* the except clauses inside main() that enclose the code of a step,
\* innermost first: load_ssh 383, init_clients 393, check_existing 179,
\* select_ads 200, for_ad 223, attempt 296 and 315, success 325
HandlersAt(pc) ==
    CASE pc = "load_ssh" -> <<"FileNotFoundError">>
      [] pc = "init_clients" -> <<"Exception">>
      [] pc = "check_existing" -> <<"Exception">>
      [] pc = "select_ads" -> <<"Exception">>
      [] pc = "for_ad" -> <<"Exception">>
      [] pc = "attempt" -> <<"ServiceError", "Exception">>
      [] pc = "success" -> <<"Exception">>
      [] OTHER -> << >>

\* Raise whose __main__ block has no KeyboardInterrupt clause
Raise_AsFatalError(r, exc) ==
    IF \E i \in DOMAIN HandlersAt(r.pc) : Catches(HandlersAt(r.pc)[i], exc)
    THEN [r EXCEPT !.swallowed = TRUE]
    ELSE Exit(r, 1, "fatal")

\* an exception raised in the current step: an enclosing clause of main()
\* catches it and the run goes on, or it reaches the __main__ block, lines
\* 542-549 (KeyboardInterrupt: exit 130, Exception: exit 1)
Raise(r, exc) ==
    IF \E i \in DOMAIN HandlersAt(r.pc) : Catches(HandlersAt(r.pc)[i], exc)
    THEN [r EXCEPT !.swallowed = TRUE]
    ELSE IF Catches("KeyboardInterrupt", exc)
    THEN Exit(r, 130, "interrupted")
    ELSE Exit(r, 1, "fatal")

\* the part of a step that is done when an interrupt lands late in it: the
\* existing-instance check has found an instance and is at lines 413-416,
\* or the success report is at lines 493-501; otherwise nothing is done yet
LateIn(r) ==
    IF r.pc = "check_existing" /\ ~FLAG_FILE.exists /\ ActiveInstances(cloud) # << >>
    THEN {Hear(Log([r EXCEPT !.existing_instance = ActiveInstances(cloud)[1]],
                   Call("list_instances", None, None, "ok")),
               [Answer("list_instances", TRUE) EXCEPT !.instances = cloud])}
    ELSE IF r.pc = "success" THEN {r}
    ELSE {}

\* the user presses Ctrl-C while the run is in some step: before the step
\* has changed anything, or - in the two steps that write FLAG_FILE - while
\* write_text is at work (file opened and emptied) or after it is done; an
\* interrupted creation call may have been accepted by the provider
Interrupt(p) ==
    LET r == IF proc[p].pc = "check_flag"
             THEN [proc[p] EXCEPT !.flag_before = FLAG_FILE] ELSE proc[p]
        new_instance == [id |-> Len(cloud) + 1, lifecycle_state |-> "PROVISIONING"]
    IN
    /\ r.pc \notin {"idle", "exit"}
    /\ r.interrupted_at = "none"
    /\ \/ /\ Set(p, Raise([r EXCEPT !.interrupted_at = r.pc], "KeyboardInterrupt"))
          /\ UNCHANGED FLAG_FILE
          /\ cloud' \in {cloud} \cup (IF r.pc = "attempt" THEN {Append(cloud, new_instance)}
                                      ELSE {})
       \/ \E late \in LateIn(r), outcome \in {"written", "truncated"} :
            LET id == IF r.pc = "success" THEN r.instance.id
                      ELSE late.existing_instance.id
            IN  /\ FLAG_FILE' = create_success_flag(id, outcome)
                /\ Set(p, Raise([late EXCEPT !.interrupted_at = r.pc,
                                             !.flag_writes = Append(@, outcome)],
                                "KeyboardInterrupt"))
                /\ UNCHANGED cloud

NextInterrupt ==
    \/ Next
    \/ \E p \in Procs : Interrupt(p)

SpecInterrupt == Init /\ [][NextInterrupt]_vars

\* ------------------------------------------------------ repeated runs
\* Runs made one after the other (by cron, say) in the same directory and
\* compartment, none with --force: the sentinel file and the provider's
\* instances are what one run leaves to the next.
LaunchCount(r) ==
    Cardinality({i \in DOMAIN r.calls :
                    r.calls[i].op = "create_instance" /\ r.calls[i].res = "success"})

\* what the runs up to and including the ended run r have done
History(r) ==
    [runs |-> r.earlier.runs + 1,
     written |-> r.earlier.written \/ (r.ended = "success" /\ FLAG_FILE.exists),
     launches_since |->
        IF r.earlier.written THEN r.earlier.launches_since + LaunchCount(r)
        ELSE IF r.ended = "success" /\ FLAG_FILE.exists THEN 1
        ELSE 0]

InitRuns ==
    /\ \E args \in Args :
         /\ ~args.force
         /\ proc = [p \in Procs |-> IF p = 1 THEN StartProc(args) ELSE IdleProc]
    /\ FLAG_FILE \in {NoFile, FlagContent(1)}
    /\ cloud \in StartClouds

\* the next invocation of the script, after the previous one has ended
NewRun(p) ==
    /\ proc[p].pc = "exit"
    /\ proc[p].earlier.runs + 1 < MaxRuns
    /\ \E args \in Args :
         /\ ~args.force
         /\ Set(p, [StartProc(args) EXCEPT !.earlier = History(proc[p])])
    /\ UNCHANGED <<FLAG_FILE, cloud>>

NextRuns ==
    \/ Next
    \/ \E p \in Procs : NewRun(p)

SpecRuns == InitRuns /\ [][NextRuns]_vars

\* ------------------------------------------------------ twin runs
\* Two runs with --force that differ in one thing only: run 1 starts with
\* the sentinel file present, run 2 (its twin) without it.  Run 1 is made
\* first; then the world is put back to where run 1 started, the sentinel
\* removed, and the twin is made with the same arguments, getting from
\* .env, the file system and the provider the answers run 1 got.
IsPrefixOf(s, t) == Len(s) <= Len(t) /\ SubSeq(t, 1, Len(s)) = s

InitTwin ==
    /\ \E args \in Args :
         /\ args.force
         /\ proc = [p \in Procs |-> IF p = 1 THEN StartProc(args) ELSE IdleProc]
    /\ FLAG_FILE = FlagContent(1)
    /\ cloud \in StartClouds

TwinStart ==
    /\ proc[1].pc = "exit"
    /\ proc[2].pc = "idle"
    /\ proc' = [proc EXCEPT ![2] = StartProc(proc[1].args)]
    /\ FLAG_FILE' = NoFile
    /\ cloud' = SubSeq(cloud, 1, Len(cloud) - LaunchCount(proc[1]))

\* a step of either run; the twin's answers repeat those of run 1
TwinStep ==
    /\ Next
    /\ proc[2].pc # "idle" => IsPrefixOf(proc'[2].answers, proc[1].answers)

NextTwin ==
    \/ TwinStep
    \/ TwinStart

SpecTwin == InitTwin /\ [][NextTwin]_vars

\* ------------------------------------------------------ diagnostics CLI
\* helper_scripts.py: a run of its main().  The flags are those of argparse;
\* no_arguments is len(sys.argv) == 1, which leaves every flag unset.
HelperFlags ==
    [test_auth : BOOLEAN, list_ads : BOOLEAN, list_images : BOOLEAN,
     list_shapes : BOOLEAN, validate : BOOLEAN]

NoFlags ==
    [test_auth |-> FALSE, list_ads |-> FALSE, list_images |-> FALSE,
     list_shapes |-> FALSE, validate |-> FALSE]

\* what validate_config and test_authentication look at: the five other
\* required fields of the config, OCI_KEY_FILE, SSH_PUBLIC_KEY_FILE (each
\* unset, naming a missing file or naming a file), the five required
\* environment variables
FileSettings == {"unset", "missing", "present"}
HelperConfigs ==
    [fields_set : BOOLEAN, key_file : FileSettings, ssh_key : FileSettings,
     env_vars_set : BOOLEAN]

HelperStart(flags, no_arguments) ==
    [ pc |-> "parse",
      argv |-> flags,            \* the flags as given on the command line
      no_arguments |-> no_arguments,
      args |-> flags,
      config |-> [fields_set |-> FALSE, key_file |-> "unset", ssh_key |-> "unset",
                  env_vars_set |-> FALSE],
      success |-> TRUE,
      exit_code |-> -1,
      ended |-> "running",
      checks |-> << >>,          \* the checks run and their results, in order
      listings |-> << >> ]       \* the list operations run, in order

HelperIdle == [HelperStart(NoFlags, FALSE) EXCEPT !.pc = "idle"]

InitHelper ==
    /\ \E flags \in HelperFlags, no_arguments \in BOOLEAN :
         /\ no_arguments => flags = NoFlags
         /\ proc = [p \in Procs |-> IF p = 1 THEN HelperStart(flags, no_arguments)
                                    ELSE HelperIdle]
    /\ FLAG_FILE = NoFile
    /\ cloud = << >>

Check(name, passed) == [check |-> name, passed |-> passed]

\* Conjoin that forgets the earlier results
Conjoin_Overwrite(result, success) == result

\* lines 337, 349, 351: success = <check>(config) and success
Conjoin(result, success) == result /\ success

\* validate_config lines 238-300: True iff the error list stays empty
validate_config(config) ==
    /\ config.fields_set
    /\ config.key_file = "present"
    /\ config.ssh_key # "missing"
    /\ config.env_vars_set

\* lines 326-330: without arguments validation is switched on
HelperParse(p) ==
    /\ proc[p].pc = "parse"
    /\ Set(p, [proc[p] EXCEPT !.args.validate = @ \/ proc[p].no_arguments,
                              !.pc = "load_config"])
    /\ UNCHANGED <<FLAG_FILE, cloud>>

\* line 333 with load_config (34-50): sys.exit(1) without .env
HelperLoadConfig(p) ==
    /\ proc[p].pc = "load_config"
    /\ \E env_exists \in BOOLEAN, config \in HelperConfigs :
         IF ~env_exists
         THEN /\ config = HelperIdle.config
              /\ Set(p, Exit(proc[p], 1, "no_env"))
         ELSE Set(p, [proc[p] EXCEPT !.config = config, !.success = TRUE,
                                     !.pc = "test_auth"])
    /\ UNCHANGED <<FLAG_FILE, cloud>>

\* test_authentication (68-99): True iff the user could be fetched; without
\* OCI_KEY_FILE create_oci_config raises inside the try and it returns False
AuthResults(config) == IF config.key_file = "unset" THEN {FALSE} ELSE BOOLEAN

\* lines 338-339
HelperTestAuth(p) ==
    LET r == proc[p] IN
    /\ r.pc = "test_auth"
    /\ IF r.args.test_auth
       THEN \E ok \in AuthResults(r.config) :
              Set(p, [r EXCEPT !.success = Conjoin(ok, r.success),
                               !.checks = Append(@, Check("test_authentication", ok)),
                               !.pc = "list_ads"])
       ELSE Set(p, [r EXCEPT !.pc = "list_ads"])
    /\ UNCHANGED <<FLAG_FILE, cloud>>

\* lines 341-348: the three list operations print and return nothing; each
\* catches its own exceptions
HelperList(p) ==
    LET r == proc[p]
        ran(flag, name) == IF flag THEN <<name>> ELSE << >>
    IN
    /\ r.pc = "list_ads"
    /\ Set(p, [r EXCEPT !.listings = ran(r.args.list_ads, "list_availability_domains")
                                        \o ran(r.args.list_images, "list_images")
                                        \o ran(r.args.list_shapes, "list_shapes"),
                        !.pc = "validate"])
    /\ UNCHANGED <<FLAG_FILE, cloud>>

\* lines 350-355: validation, the authentication test that follows a run
\* without failure so far, and sys.exit.  Path(None) at line 248 raises
\* TypeError when OCI_KEY_FILE is unset: the script dies with exit code 1.
HelperValidate(p) ==
    LET r == proc[p] IN
    /\ r.pc = "validate"
    /\ IF ~r.args.validate
       THEN Set(p, Exit(r, IF r.success THEN 0 ELSE 1, "sys_exit"))
       ELSE IF r.config.key_file = "unset"
       THEN Set(p, Exit([r EXCEPT !.checks = Append(@, Check("validate_config", FALSE))],
                        1, "type_error"))
       ELSE LET valid == validate_config(r.config)
                r1 == [r EXCEPT !.success = Conjoin(valid, r.success),
                                !.checks = Append(@, Check("validate_config", valid))]
            IN  IF r1.success
                THEN \E ok \in AuthResults(r.config) :
                       LET r2 == [r1 EXCEPT
                                    !.success = Conjoin(ok, r1.success),
                                    !.checks = Append(@, Check("test_authentication", ok))]
                       IN  Set(p, Exit(r2, IF r2.success THEN 0 ELSE 1, "sys_exit"))
                ELSE Set(p, Exit(r1, IF r1.success THEN 0 ELSE 1, "sys_exit"))
    /\ UNCHANGED <<FLAG_FILE, cloud>>

NextHelper ==
    \E p \in Procs :
        \/ HelperParse(p)
        \/ HelperLoadConfig(p)
        \/ HelperTestAuth(p)
        \/ HelperList(p)
        \/ HelperValidate(p)

SpecHelper == InitHelper /\ [][NextHelper]_vars

\* ------------------------------------------------------ reading the log
Creates(r) == SelectSeq(r.calls, LAMBDA c : c.op = "create_instance")
ProviderCalls(r) == SelectSeq(r.calls, LAMBDA c : c.op # "sleep")
Started(r) == r.pc \notin {"idle", "check_flag"}

\* ------------------------------------------------------------------ C1
\* C1: a run that found the sentinel file at its flag check and was started
\* without --force has ended with exit code 0 at the flag check and has
\* issued no provider call at all.
C1_NoCallsWhenFlagged ==
    \A p \in Procs :
        (Started(proc[p]) /\ proc[p].flag_at_start /\ ~proc[p].args.force)
        => /\ proc[p].pc = "exit"
           /\ proc[p].exit_code = 0
           /\ proc[p].ended = "flag_exists"
           /\ proc[p].calls = << >>

C1_Witness ==
    \E p \in Procs :
        /\ proc[p].pc = "exit"
        /\ proc[p].flag_at_start /\ ~proc[p].args.force
        /\ FLAG_FILE.exists
        /\ proc[p].exit_code = 0

\* ------------------------------------------------------------------ C2
\* C2: a creation attempt that returned 'quota' or 'other' is the last entry
\* of the run's log (no creation call, enumeration or sleep follows it), the
\* run has ended with exit code 1, and when it was the first attempt the
\* total is 1.
C2_NonCapacityStops ==
    \A p \in Procs :
        \A i \in DOMAIN proc[p].calls :
            (proc[p].calls[i].op = "create_instance"
                /\ proc[p].calls[i].res \in {"quota", "other"})
            => /\ i = Len(proc[p].calls)
               /\ proc[p].pc = "exit"
               /\ proc[p].exit_code = 1
               /\ (Len(Creates(proc[p])) = 1 => proc[p].total_attempts = 1)

C2_Witness ==
    \E p \in Procs :
        /\ proc[p].pc = "exit"
        /\ proc[p].exit_code = 1
        /\ Len(proc[p].availability_domains) = 2
        /\ Len(proc[p].fault_domains) = 2
        /\ proc[p].total_attempts = 1
        /\ Creates(proc[p])[1].res = "quota"

\* ------------------------------------------------------------------ C3
SuccessIndexes(r) ==
    {i \in DOMAIN r.calls : r.calls[i].op = "create_instance" /\ r.calls[i].res = "success"}

\* C3 as stated: after a successful attempt the sentinel holds the returned
\* instance id, the run ends with exit code 0, nothing follows the attempt
\* and at most one attempt of the run succeeded.
C3_Original ==
    \A p \in Procs :
        /\ Cardinality(SuccessIndexes(proc[p])) <= 1
        /\ \A i \in SuccessIndexes(proc[p]) :
              /\ i = Len(proc[p].calls)
              /\ proc[p].pc \in {"success", "exit"}
              /\ proc[p].pc = "exit" =>
                    /\ proc[p].exit_code = 0
                    /\ FLAG_FILE = FlagContent(proc[p].instance.id)

\* C3 (amended): after a successful attempt create_success_flag is called
\* exactly once, with the returned instance id, so the sentinel holds that id
\* unless the file write raised (which is only logged); the run ends with
\* exit code 0, nothing follows the attempt and at most one attempt of the
\* run succeeded.
C3_SuccessTerminal ==
    \A p \in Procs :
        /\ Cardinality(SuccessIndexes(proc[p])) <= 1
        /\ \A i \in SuccessIndexes(proc[p]) :
              /\ i = Len(proc[p].calls)
              /\ proc[p].pc \in {"success", "exit"}
              /\ proc[p].instance.id = cloud[Len(cloud)].id
              /\ proc[p].pc = "exit" =>
                    /\ proc[p].exit_code = 0
                    /\ Len(proc[p].flag_writes) = 1
                    /\ proc[p].flag_writes[1] = "written"
                          => FLAG_FILE = FlagContent(proc[p].instance.id)
                    /\ proc[p].flag_writes[1] = "failed"
                          => FLAG_FILE.exists = proc[p].flag_at_start
                    /\ proc[p].flag_writes[1] = "truncated"
                          => FLAG_FILE = FlagContent(None)

C3_Witness ==
    \E p \in Procs :
        /\ proc[p].pc = "exit"
        /\ proc[p].ended = "success"
        /\ proc[p].args.force /\ proc[p].flag_at_start
        /\ proc[p].instance.id = 3
        /\ FLAG_FILE = FlagContent(3)

\* ------------------------------------------------------------------ C4
CapacityCount(r) ==
    Cardinality({i \in DOMAIN r.calls :
                    r.calls[i].op = "create_instance" /\ r.calls[i].res = "capacity"})

\* the scenario of C4: one zone with two fault domains, two capacity errors,
\* then success on the attempt pinned to the second fault domain
C4_Scenario(r) ==
    /\ r.pc = "exit"
    /\ Len(r.availability_domains) = 1
    /\ Len(r.fault_domains) = 2
    /\ Len(Creates(r)) = 3
    /\ Creates(r)[1].res = "capacity"
    /\ Creates(r)[2].res = "capacity"
    /\ Creates(r)[3].res = "success"
    /\ Creates(r)[3].fd = r.fault_domains[2]

\* C4 as stated: the counters equal the counts of the log, and the scenario
\* ends with 3 attempts, 2 capacity errors and the sentinel holding the id.
C4_Original ==
    \A p \in Procs :
        /\ proc[p].total_attempts = Len(Creates(proc[p]))
        /\ proc[p].capacity_errors = CapacityCount(proc[p])
        /\ C4_Scenario(proc[p]) =>
              /\ proc[p].total_attempts = 3
              /\ proc[p].capacity_errors = 2
              /\ FLAG_FILE = FlagContent(proc[p].instance.id)

\* C4 (amended): total_attempts is the number of creation calls issued so
\* far and capacity_errors the number of them that returned 'capacity'; the
\* scenario ends with 3 attempts, 2 capacity errors and, unless the flag-file
\* write raised, the sentinel holding the returned instance id.
C4_CountersExact ==
    \A p \in Procs :
        /\ proc[p].total_attempts = Len(Creates(proc[p]))
        /\ proc[p].capacity_errors = CapacityCount(proc[p])
        /\ C4_Scenario(proc[p]) =>
              /\ proc[p].total_attempts = 3
              /\ proc[p].capacity_errors = 2
              /\ proc[p].exit_code = 0
              /\ proc[p].flag_writes = <<"written">>
                    => FLAG_FILE = FlagContent(proc[p].instance.id)

C4_Witness ==
    \E p \in Procs :
        /\ C4_Scenario(proc[p])
        /\ proc[p].total_attempts = 3
        /\ proc[p].capacity_errors = 2
        /\ FLAG_FILE = FlagContent(proc[p].instance.id)
        /\ proc[p].instance.id # None

\* ------------------------------------------------------------------ C5
RECURSIVE PairsUpTo(_, _, _)
\* the (zone, fault domain) pairs of the first k zones: per zone the
\* unpinned pair, then one pair per enumerated fault domain, in order
PairsUpTo(ads, fd_lists, k) ==
    IF k = 0 THEN << >>
    ELSE PairsUpTo(ads, fd_lists, k - 1)
            \o << <<ads[k], None>> >>
            \o [j \in 1..Len(fd_lists[k]) |-> <<ads[k], fd_lists[k][j]>>]

Attempted(r) == [i \in 1..Len(Creates(r)) |-> <<Creates(r)[i].ad, Creates(r)[i].fd>>]

IsPrefix(s, t) == Len(s) <= Len(t) /\ SubSeq(t, 1, Len(s)) = s

Enumerations(r) == SelectSeq(r.calls, LAMBDA c : c.op = "list_fault_domains")

\* C5: the creation attempts of a run follow, zone after zone in the order of
\* the zone list, the sequence [no fault domain] then each enumerated fault
\* domain in enumeration order; a zone is enumerated only when the zones
\* before it have had all their attempts, and a zone whose loop body ran to
\* its end has had exactly 1 + (number of its fault domains) attempts.
C5_AttemptOrder ==
    \A p \in Procs :
        LET r == proc[p]
            visited == Len(r.fd_lists)
            expected == PairsUpTo(r.availability_domains, r.fd_lists, visited)
        IN  /\ visited <= Len(r.availability_domains)
            /\ Len(Enumerations(r)) = visited
            /\ \A k \in 1..visited : Enumerations(r)[k].ad = r.availability_domains[k]
            /\ IsPrefix(Attempted(r), expected)
            /\ visited >= 1 =>
                  Len(Attempted(r)) >=
                      Len(PairsUpTo(r.availability_domains, r.fd_lists, visited - 1))
            /\ r.pc = "for_ad" => Attempted(r) = expected
            /\ r.ended = "exhausted" =>
                  /\ visited = Len(r.availability_domains)
                  /\ Attempted(r) = expected

C5_Witness ==
    \E p \in Procs :
        /\ proc[p].ended = "exhausted"
        /\ proc[p].availability_domains = <<1, 2>>
        /\ proc[p].fd_lists = << <<1, 2>>, << >> >>
        /\ Attempted(proc[p]) = << <<1, None>>, <<1, 1>>, <<1, 2>>, <<2, None>> >>

\* ------------------------------------------------------------------ C6
\* C6: when get_all_availability_domains was called and the listing raised or
\* was empty, the run has ended with exit code 1 and has made no creation
\* attempt (and enumerated no fault domain).
C6_NoZonesFails ==
    \A p \in Procs :
        (\E i \in DOMAIN proc[p].calls :
            /\ proc[p].calls[i].op = "list_availability_domains"
            /\ proc[p].calls[i].res \in {"raised", "empty"})
        => /\ proc[p].pc = "exit"
           /\ proc[p].exit_code = 1
           /\ Creates(proc[p]) = << >>
           /\ Enumerations(proc[p]) = << >>
           /\ proc[p].total_attempts = 0

C6_Witness ==
    \E p \in Procs :
        /\ proc[p].pc = "exit"
        /\ proc[p].ended = "no_ads"
        /\ proc[p].exit_code = 1
        /\ proc[p].calls[Len(proc[p].calls)].res = "raised"

\* ------------------------------------------------------------------ C7
\* C7: a run started with --dry-run never makes a creation attempt.
C7_DryRunNeverCreates ==
    \A p \in Procs :
        proc[p].args.dry_run =>
            /\ Creates(proc[p]) = << >>
            /\ proc[p].pc \notin {"select_ads", "for_ad", "attempt", "sleep", "success"}

C7_Witness ==
    \E p \in Procs :
        /\ proc[p].args.dry_run
        /\ proc[p].pc = "exit"
        /\ proc[p].ended = "dry_run"
        /\ proc[p].config.ssh_key_file # None
        /\ proc[p].exit_code = 0

\* ------------------------------------------------------------------ C8
RECURSIVE SearchSpaceSize(_, _)
\* the sum over the first k zones of 1 + (number of fault domains)
SearchSpaceSize(fd_lists, k) ==
    IF k = 0 THEN 0 ELSE SearchSpaceSize(fd_lists, k - 1) + 1 + Len(fd_lists[k])

AllCapacity(r) ==
    /\ Creates(r) # << >>
    /\ \A i \in DOMAIN Creates(r) : Creates(r)[i].res = "capacity"

\* C8: a run that has ended and whose attempts all returned 'capacity' ended
\* at the exhausted report with exit code 1, after attempting every pair of
\* the search space exactly once, and its total_attempts is the sum over the
\* zones of 1 + (number of fault domains of the zone).
C8_ExhaustedCoversAll ==
    \A p \in Procs :
        LET r == proc[p] IN
        (r.pc = "exit" /\ AllCapacity(r))
        => /\ r.ended = "exhausted"
           /\ r.exit_code = 1
           /\ Len(r.fd_lists) = Len(r.availability_domains)
           /\ Attempted(r) = PairsUpTo(r.availability_domains, r.fd_lists,
                                       Len(r.availability_domains))
           /\ Distinct(Attempted(r))
           /\ r.total_attempts = SearchSpaceSize(r.fd_lists, Len(r.availability_domains))

C8_Witness ==
    \E p \in Procs :
        /\ proc[p].ended = "exhausted"
        /\ AllCapacity(proc[p])
        /\ Len(proc[p].availability_domains) = 2
        /\ Len(proc[p].fd_lists[1]) = 2
        /\ Len(proc[p].fd_lists[2]) = 1
        /\ proc[p].total_attempts = 5

\* ------------------------------------------------------------- C9, C10
UpperChar(c) ==
    CASE c = "a" -> "A" [] c = "c" -> "C" [] c = "i" -> "I" [] c = "l" -> "L"
      [] c = "m" -> "M" [] c = "o" -> "O" [] c = "p" -> "P" [] c = "q" -> "Q"
      [] c = "t" -> "T" [] c = "u" -> "U" [] c = "y" -> "Y" [] OTHER -> c

\* text s has the (lower-case) word in it, in any mix of cases
Mentions(word, s) ==
    \E i \in 0..(Len(s) - Len(word)) :
        \A k \in 1..Len(word) : s[i + k] \in {word[k], UpperChar(word[k])}

LastCreate(r) == Creates(r)[Len(Creates(r))]

\* C9: when the last creation call met a ServiceError whose message has
\* "capacity" in it in any mix of cases, create_instance returned error_type
\* 'capacity', whether or not the message has "quota" or "limit" in it too.
C9_CapacityFirst ==
    \A p \in Procs :
        LET r == proc[p] IN
        (r.response.kind = "service_error"
            /\ Mentions(W_capacity, Str(r.response.message)))
        => /\ r.error_type = "capacity"
           /\ ~r.success
           /\ LastCreate(r).res = "capacity"

C9_Witness ==
    \E p \in Procs :
        /\ proc[p].response.kind = "service_error"
        /\ proc[p].response.message.text = <<"l","i","m","I","T">> \o W_capacity
        /\ proc[p].error_type = "capacity"

\* C10: when the last creation call met a ServiceError, error_type is 'quota'
\* if the message has "quota" or "limit" but not "capacity" in it, and 'other'
\* if it has none of the three; when it met any other exception, error_type
\* is 'other'; a failed call always yields one of the three kinds.
C10_QuotaAndOther ==
    \A p \in Procs :
        LET r == proc[p]
            text == Str(r.response.message)
            capacity == Mentions(W_capacity, text)
            quota == Mentions(W_quota, text) \/ Mentions(W_limit, text)
        IN  /\ (r.response.kind = "service_error" /\ quota /\ ~capacity)
                  => r.error_type = "quota"
            /\ (r.response.kind = "service_error" /\ ~quota /\ ~capacity)
                  => r.error_type = "other"
            /\ r.response.kind = "exception" => r.error_type = "other"
            /\ r.response.kind \in {"service_error", "exception"}
                  => /\ ~r.success
                     /\ r.error_type \in {"capacity", "quota", "other"}
                     /\ LastCreate(r).res = r.error_type

C10_Witness ==
    \E p \in Procs :
        /\ proc[p].response.kind = "service_error"
        /\ proc[p].response.message.text = <<" ","l","i","m","I","T">>
        /\ proc[p].error_type = "quota"
        /\ proc[p].exit_code = 1

\* ----------------------------------------------------------------- C11
FailureSites ==
    {"no_env", "key_file_none", "ssh_key_none", "ssh_key_error", "client_init",
     "no_ad_specified", "no_ads", "non_capacity", "exhausted"}

LaunchedOrExists(r) ==
    \/ SuccessIndexes(r) # {}
    \/ r.flag_at_start /\ ~r.args.force
    \/ r.existing_instance # NoInstance

C17_InterruptAborts ==
    \A p \in Procs :
        proc[p].interrupted_at # "none" =>
            /\ proc[p].pc = "exit"
            /\ proc[p].exit_code = 130
            /\ proc[p].ended = "interrupted"
            /\ ~proc[p].swallowed
            /\ proc[p].total_attempts = Len(Creates(proc[p]))
            /\ proc[p].capacity_errors = CapacityCount(proc[p])

C17_Witness ==
    \E p \in Procs :
        /\ proc[p].interrupted_at = "attempt"
        /\ proc[p].capacity_errors = 1
        /\ proc[p].calls[Len(proc[p].calls)].op = "sleep"
        /\ proc[p].exit_code = 130

\* ----------------------------------------------------------------- C13
\* C13: in a sequence of runs without --force, once an earlier run has
\* launched an instance and left the sentinel file in place, the file is
\* still there, every later run has ended at its flag check with exit code 0
\* without any provider call, and one launch only has succeeded since.
C13_OneLaunchPerSentinel ==
    \A p \in Procs :
        proc[p].earlier.written =>
            /\ FLAG_FILE.exists
            /\ Started(proc[p]) =>
                  /\ proc[p].pc = "exit"
                  /\ proc[p].exit_code = 0
                  /\ proc[p].calls = << >>
            /\ proc[p].earlier.launches_since + LaunchCount(proc[p]) = 1

C13_Witness ==
    \E p \in Procs :
        /\ proc[p].earlier.written
        /\ proc[p].earlier.runs = 2
        /\ proc[p].pc = "exit"
        /\ proc[p].exit_code = 0
        /\ Len(cloud) > 0 /\ cloud[Len(cloud)].lifecycle_state = "PROVISIONING"

\* ----------------------------------------------------------------- C14
\* the provider's instances as they were before the run launched anything
CloudBefore(r) == SubSeq(cloud, 1, Len(cloud) - LaunchCount(r))

Listed(r, res) ==
    \E i \in DOMAIN r.calls : r.calls[i].op = "list_instances" /\ r.calls[i].res \in res

Selected(r) ==
    \/ r.pc \in {"for_ad", "attempt", "sleep", "success"}
    \/ r.ended \in {"no_ad_specified", "no_ads", "non_capacity", "exhausted", "success"}

ZoneListings(r) == SelectSeq(r.answers, LAMBDA a : a.kind = "list_availability_domains")

\* C15: after the zone selection, (a) with a configured zone or --no-cycle
\* the zones were never enumerated; (b) with a configured zone the search
\* space is that zone alone and every creation call targets it; (c) with
\* --no-cycle and no configured zone the run has ended with exit code 1
\* without a creation call; (d) otherwise the zones were enumerated once,
\* the search space is the whole list returned, and every creation call
\* targets a zone of that list.
C15_SearchSpace ==
    \A p \in Procs :
        Selected(proc[p]) =>
            LET r == proc[p]
                configured == r.config.availability_domain
                single == r.args.no_cycle \/ configured # None
            IN  /\ single =>
                      /\ ZoneListings(r) = << >>
                      /\ \A i \in DOMAIN r.calls :
                            r.calls[i].op # "list_availability_domains"
                /\ configured # None =>
                      /\ r.availability_domains = <<configured>>
                      /\ \A i \in DOMAIN Creates(r) : Creates(r)[i].ad = configured
                /\ (r.args.no_cycle /\ configured = None) =>
                      /\ r.pc = "exit"
                      /\ r.exit_code = 1
                      /\ r.ended = "no_ad_specified"
                      /\ Creates(r) = << >>
                /\ ~single =>
                      /\ Len(ZoneListings(r)) = 1
                      /\ r.availability_domains =
                            IF ZoneListings(r)[1].ok THEN ZoneListings(r)[1].names ELSE << >>
                      /\ \A i \in DOMAIN Creates(r) :
                            \E k \in DOMAIN ZoneListings(r)[1].names :
                                Creates(r)[i].ad = ZoneListings(r)[1].names[k]

C15_Witness ==
    \E p \in Procs :
        /\ proc[p].ended = "exhausted"
        /\ ~proc[p].args.no_cycle
        /\ proc[p].config.availability_domain = 2
        /\ Len(Creates(proc[p])) = 3
        /\ \A i \in 1..3 : Creates(proc[p])[i].ad = 2

\* ----------------------------------------------------------------- C16
\* the checks the command line selects
Requested(r) ==
    (IF r.argv.test_auth THEN {"test_authentication"} ELSE {})
    \cup (IF r.argv.validate \/ r.no_arguments THEN {"validate_config"} ELSE {})

CheckNames(r) == [i \in DOMAIN r.checks |-> r.checks[i].check]

\* C16 as stated: a diagnostics run that reached its final sys.exit has exit
\* code 0 if every requested check passed, and exit code 1 only if a
\* requested check failed.
C16_Original ==
    \A p \in Procs :
        (proc[p].pc = "exit" /\ proc[p].ended = "sys_exit") =>
            /\ proc[p].exit_code \in {0, 1}
            /\ proc[p].exit_code = 1 <=>
                  \E i \in DOMAIN proc[p].checks :
                      /\ proc[p].checks[i].check \in Requested(proc[p])
                      /\ ~proc[p].checks[i].passed

\* C16: a diagnostics run ends with exit code 0 or 1.  Without .env it ends
\* with 1 before any check.  Otherwise the checks run are the
\* authentication test if --test-auth was given, then validation if
\* --validate was given or there was no argument, then - when validation
\* was run and nothing has failed so far - an authentication test; the exit
\* code is 0 exactly when every check that was run passed, the list
\* operations having no part in it.
C16_ExitCode ==
    \A p \in Procs :
        proc[p].pc = "exit" =>
            LET r == proc[p]
                auth == IF r.argv.test_auth THEN <<"test_authentication">> ELSE << >>
                validation == IF r.argv.validate \/ r.no_arguments
                              THEN <<"validate_config">> ELSE << >>
                before == auth \o validation
                follow == IF /\ validation # << >>
                             /\ Len(r.checks) >= Len(before)
                             /\ \A i \in 1..Len(before) : r.checks[i].passed
                          THEN <<"test_authentication">> ELSE << >>
            IN  /\ r.exit_code \in {0, 1}
                /\ r.ended = "no_env" => (r.exit_code = 1 /\ r.checks = << >>)
                /\ r.ended # "no_env" =>
                      /\ CheckNames(r) = before \o follow
                      /\ r.exit_code = 0 <=>
                            \A i \in DOMAIN r.checks : r.checks[i].passed

C16_Witness ==
    \E p \in Procs :
        /\ proc[p].pc = "exit"
        /\ proc[p].no_arguments
        /\ proc[p].checks = << Check("validate_config", TRUE),
                               Check("test_authentication", FALSE) >>
        /\ proc[p].exit_code = 1

\* ----------------------------------------------------------------- C18
\* C18 as stated: a creation attempt that is followed by another creation
\* attempt of the same run is followed at once by a sleep.
C18_SleepBetweenAttempts ==
    \A p \in Procs :
        \A i \in DOMAIN proc[p].calls :
            (/\ proc[p].calls[i].op = "create_instance"
             /\ \E j \in DOMAIN proc[p].calls :
                    j > i /\ proc[p].calls[j].op = "create_instance")
            => proc[p].calls[i + 1].op = "sleep"

\* ----------------------------------------------------------------- C19
\* C19 as stated: the run sleeps only while a pair remains to be tried, so
\* a run that exhausted its search space did not sleep after its final
\* attempt.
C19_NoSleepAfterLast ==
    \A p \in Procs :
        /\ proc[p].pc = "sleep" =>
              \/ proc[p].fd_i < Len(proc[p].attempts)
              \/ proc[p].ad_i < Len(proc[p].availability_domains)
        /\ (proc[p].ended = "exhausted" /\ proc[p].calls # << >>) =>
              proc[p].calls[Len(proc[p].calls)].op # "sleep"

\* ----------------------------------------------------------------- C20
\* C20: the creation calls of a run differ pairwise in their (zone,
\* fault-domain) pair, and each zone has at most one unpinned attempt.
C20_NoPairTwice ==
    \A p \in Procs :
        LET c == Creates(proc[p]) IN
        /\ \A i, j \in DOMAIN c :
              i # j => <<c[i].ad, c[i].fd>> # <<c[j].ad, c[j].fd>>
        /\ \A z \in ZoneNames :
              Cardinality({i \in DOMAIN c : c[i].ad = z /\ c[i].fd = None}) <= 1

C20_Witness ==
    \E p \in Procs :
        /\ proc[p].ended = "exhausted"
        /\ Len(Creates(proc[p])) = 6
        /\ Cardinality({i \in 1..6 : Creates(proc[p])[i].fd = None}) = 2

\* ----------------------------------------------------------------- C12
\* C12: of two runs with --force, same arguments, same configuration and
\* same answers, one starting with the sentinel file and its twin without,
\* the twin can always take its next step with the answers the first run
\* got, its provider calls are at every moment a prefix of the first run's,
\* and when it has ended both runs have made the same provider calls, with
\* the same results, and have the same exit code.
C12_ForceIgnoresSentinel ==
    (proc[2].pc # "idle") =>
        /\ proc[1].flag_at_start /\ proc[1].args.force
        /\ proc[2].pc # "check_flag" => ~proc[2].flag_at_start
        /\ IsPrefixOf(ProviderCalls(proc[2]), ProviderCalls(proc[1]))
        /\ proc[2].pc # "exit" => ENABLED TwinStep
        /\ proc[2].pc = "exit" =>
              /\ ProviderCalls(proc[2]) = ProviderCalls(proc[1])
              /\ proc[2].answers = proc[1].answers
              /\ proc[2].exit_code = proc[1].exit_code

C12_Witness ==
    /\ proc[1].flag_at_start /\ ~proc[2].flag_at_start
    /\ proc[2].pc = "exit"
    /\ proc[2].ended = "instance_exists"
    /\ proc[1].flag_writes = << >>
    /\ proc[2].flag_writes = <<"written">>
    /\ proc[2].exit_code = 0

\* ----------------------------------------------------------------- C21
\* the run wrote (or began to write) the flag file where the code calls
\* create_success_flag: after a successful launch, its last logged call, or
\* after its check found an instance while the file was absent
WroteWhereAllowed(r) ==
    \/ /\ SuccessIndexes(r) # {}
       /\ r.calls[Len(r.calls)].op = "create_instance"
       /\ r.calls[Len(r.calls)].res = "success"
    \/ /\ r.existing_instance # NoInstance
       /\ ~r.flag_before.exists
       /\ Creates(r) = << >>

\* C21 as stated: a run writes the sentinel at most once and only after a
\* successful launch or a found instance with the sentinel absent, and a
\* run that ended with exit code 1 or was interrupted left the sentinel as
\* it met it.
C21_Original ==
    \A p \in Procs :
        Started(proc[p]) =>
            /\ Len(proc[p].flag_writes) <= 1
            /\ proc[p].flag_writes # << >> => WroteWhereAllowed(proc[p])
            /\ FLAG_FILE # proc[p].flag_before => proc[p].flag_writes # << >>
            /\ (proc[p].pc = "exit" /\ proc[p].exit_code \in {1, 130})
                  => FLAG_FILE = proc[p].flag_before

\* C21: a run calls create_success_flag at most once and only after a
\* successful launch or a found instance with the sentinel absent; the
\* file changes through that call only; a run that ended with exit code 1
\* made no such call and left the file as it met it; an interrupted run
\* left the file as it met it unless the interrupt landed in the step that
\* writes it, the file then holding the instance id or being empty.
C21_SentinelWrites ==
    \A p \in Procs :
        Started(proc[p]) =>
            /\ Len(proc[p].flag_writes) <= 1
            /\ proc[p].flag_writes # << >> => WroteWhereAllowed(proc[p])
            /\ FLAG_FILE # proc[p].flag_before => proc[p].flag_writes # << >>
            /\ (proc[p].pc = "exit" /\ proc[p].exit_code = 1)
                  => (FLAG_FILE = proc[p].flag_before /\ proc[p].flag_writes = << >>)
            /\ (proc[p].pc = "exit" /\ proc[p].exit_code = 130)
                  => \/ FLAG_FILE = proc[p].flag_before /\ proc[p].flag_writes = << >>
                     \/ /\ proc[p].interrupted_at \in {"success", "check_existing"}
                        /\ proc[p].flag_writes \in {<<"written">>, <<"truncated">>}
                        /\ FLAG_FILE \in
                              {FlagContent(None),
                               FlagContent(IF proc[p].interrupted_at = "success"
                                           THEN proc[p].instance.id
                                           ELSE proc[p].existing_instance.id)}

C21_Witness ==
    \E p \in Procs :
        /\ proc[p].exit_code = 130
        /\ proc[p].interrupted_at = "success"
        /\ proc[p].flag_before = FlagContent(1)
        /\ proc[p].instance.id = 3
        /\ FLAG_FILE = FlagContent(3)

\* ----------------------------------------------------------------- C22
\* the log entries after position i, sleeps left out
AfterCall(r, i) ==
    SelectSeq(SubSeq(r.calls, i + 1, Len(r.calls)), LAMBDA c : c.op # "sleep")

IsLastZone(r, z) == r.availability_domains[Len(r.availability_domains)] = z

\* C22: after a fault-domain listing that failed for a zone, the run stands
\* before a single attempt without fault domain; the next call is that
\* attempt in that zone; nothing but a Capacity result lets the log go on,
\* and it goes on with the listing for the next zone of the search space;
\* after the Capacity result the run has not ended unless the zone was the
\* last one, in which case it ends as exhausted.
C22_FdFailureNotFatal ==
    \A p \in Procs :
        \A i \in DOMAIN proc[p].calls :
            (proc[p].calls[i].op = "list_fault_domains" /\ proc[p].calls[i].res = "raised")
            => LET r == proc[p]
                   z == r.calls[i].ad
                   rest == AfterCall(r, i)
               IN  /\ rest = << >> => (r.pc = "attempt" /\ r.attempts = <<None>>)
                   /\ Len(rest) >= 1 =>
                         /\ rest[1].op = "create_instance"
                         /\ rest[1].ad = z
                         /\ rest[1].fd = None
                   /\ Len(rest) >= 2 =>
                         /\ rest[1].res = "capacity"
                         /\ rest[2].op = "list_fault_domains"
                         /\ \E k \in 1..(Len(r.availability_domains) - 1) :
                               /\ r.availability_domains[k] = z
                               /\ r.availability_domains[k + 1] = rest[2].ad
                   /\ (Len(rest) = 1 /\ rest[1].res = "capacity") =>
                         IF IsLastZone(r, z)
                         THEN r.pc \in {"sleep", "for_ad"} \/ r.ended = "exhausted"
                         ELSE r.pc \in {"sleep", "for_ad"}

C22_Witness ==
    \E p \in Procs :
        /\ Len(proc[p].calls) >= 6
        /\ proc[p].calls[3].op = "list_fault_domains" /\ proc[p].calls[3].res = "raised"
        /\ proc[p].calls[4].op = "create_instance" /\ proc[p].calls[4].res = "capacity"
        /\ proc[p].calls[4].fd = None
        /\ proc[p].calls[5].op = "sleep"
        /\ proc[p].calls[6].op = "list_fault_domains" /\ proc[p].calls[6].ad = 2

\* ------------------------------------------------------------ two copies
\* Two copies of the script started in the same directory, against the same
\* tenancy: they share FLAG_FILE and the instance list and nothing else, and
\* their steps interleave.  Step(p) is one step of copy p.
Step(p) ==
    \/ CheckFlag(p)
    \/ LoadConfig(p)
    \/ LoadSsh(p)
    \/ InitClients(p)
    \/ CheckExisting(p)
    \/ SelectAds(p)
    \/ ForAd(p)
    \/ Attempt(p)
    \/ Sleep(p)
    \/ Success(p)
    \/ Exhausted(p)

\* the same command line started twice, at most one instance being there
InitPair ==
    /\ \E args \in Args : proc = [p \in Procs |-> StartProc(args)]
    /\ FLAG_FILE \in {NoFile, FlagContent(1)}
    /\ cloud \in {c \in StartClouds : Len(c) <= 1}

\* Both copies work under the same PROJECT_ROOT and against the same tenancy:
\* .env, the SSH key file, the SDK clients built from them and the zone and
\* fault-domain listings answer both copies alike.  The instance listing and
\* the launches are answered call by call.
SharedKinds ==
    {".env", "ssh_key_file", "clients", "list_availability_domains", "list_fault_domains"}
SameSurroundings ==
    \A i \in 1..Len(proc[1].answers) :
        (i <= Len(proc[2].answers) /\ proc[1].answers[i].kind \in SharedKinds)
            => proc[2].answers[i] = proc[1].answers[i]

NextPair ==
    \E p \in Procs :
        \/ CheckFlag(p) /\ SameSurroundings'
        \/ LoadConfig(p) /\ SameSurroundings'
        \/ LoadSsh(p) /\ SameSurroundings'
        \/ InitClients(p) /\ SameSurroundings'
        \/ CheckExisting(p) /\ SameSurroundings'
        \/ SelectAds(p) /\ SameSurroundings'
        \/ ForAd(p) /\ SameSurroundings'
        \/ Attempt(p) /\ SameSurroundings'
        \/ Sleep(p) /\ SameSurroundings'
        \/ Success(p) /\ SameSurroundings'
        \/ Exhausted(p) /\ SameSurroundings'

SpecPair == InitPair /\ [][NextPair]_vars

\* ----------------------------------------------------------------- C23
DoneSites == {"flag_exists", "instance_exists", "dry_run"}
FatalSites ==
    {"no_env", "key_file_none", "ssh_key_none", "ssh_key_error", "client_init",
     "no_ad_specified", "no_ads", "non_capacity"}
FinalSites == DoneSites \cup {"success", "exhausted"} \cup FatalSites

\* C23: every started run eventually stands at its exit, ended as Done,
\* Success, ExhaustedCapacity or FatalError; a run whose outer loop has run
\* out of zones does nothing but end, and an ended run takes no further step.
C23_Terminates ==
    /\ \A p \in Procs :
          (proc[p].pc # "idle") ~> (proc[p].pc = "exit" /\ proc[p].ended \in FinalSites)
    /\ [][\A p \in Procs :
            /\ (proc[p].pc = "for_ad" /\ proc[p].ad_i > Len(proc[p].availability_domains))
                  => (proc'[p].pc = "exit" /\ proc'[p].ended = "exhausted"
                      /\ proc'[p].calls = proc[p].calls)
            /\ proc[p].pc = "exit" => proc'[p] = proc[p]]_vars

C23_Witness ==
    \E p \in Procs :
        /\ proc[p].pc = "exit"
        /\ proc[p].ended = "exhausted"
        /\ proc[p].total_attempts = 6
        /\ Len(SelectSeq(proc[p].calls, LAMBDA c : c.op = "sleep")) = 5

\* ----------------------------------------------------------------- C24
\* C24: neither copy ever waits for the other: a copy that has not ended can
\* take its next step wherever the other copy stands, and a copy about to
\* call create_instance can have its launch accepted even when the other
\* copy has launched already.
C24_NotExcluded ==
    \A p \in Procs :
        /\ proc[p].pc \notin {"idle", "exit"} => ENABLED (Step(p) /\ SameSurroundings')
        /\ proc[p].pc = "attempt" => ENABLED (Attempt(p) /\ proc'[p].pc = "success")

\* both copies read the sentinel as absent and found no instance, neither
\* has written the sentinel, and both launches were accepted
C24_Witness ==
    /\ \A p \in Procs :
          /\ proc[p].pc = "success"
          /\ ~proc[p].args.force
          /\ ~proc[p].flag_at_start
          /\ proc[p].calls[1] = Call("list_instances", None, None, "ok")
          /\ proc[p].flag_writes = << >>
    /\ ~FLAG_FILE.exists
    /\ proc[1].instance.id # proc[2].instance.id
    /\ Len(SelectSeq(cloud, LAMBDA i : i.lifecycle_state = "PROVISIONING")) = 2

\* ----------------------------------------------------------------- C25
\* C25: when a creation attempt is about to start, every earlier attempt of
\* the run returned 'capacity' and capacity_errors = total_attempts; in the
\* exhausted-failure state capacity_errors = total_attempts >= 1 and the
\* retry-later recommendation was logged.
C25_AllCapacityBefore ==
    \A p \in Procs :
        LET r == proc[p] IN
        /\ r.pc = "attempt" =>
              /\ r.capacity_errors = r.total_attempts
              /\ Len(Creates(r)) = r.total_attempts
              /\ \A i \in 1..Len(Creates(r)) : Creates(r)[i].res = "capacity"
        /\ r.ended = "exhausted" =>
              /\ r.capacity_errors = r.total_attempts
              /\ r.total_attempts >= 1
              /\ \A i \in 1..Len(Creates(r)) : Creates(r)[i].res = "capacity"
              /\ r.recommended
              /\ r.exit_code = 1

C25_Witness ==
    \E p \in Procs :
        /\ proc[p].ended = "exhausted"
        /\ proc[p].recommended
        /\ proc[p].capacity_errors = 3
        /\ proc[p].total_attempts = 3
        /\ Len(proc[p].availability_domains) = 2

\* ----------------------------------------------------------------- C26
\* where a run stands once its existing-instance check found nothing
AfterNothingFound(r) ==
    /\ r.existing_instance = NoInstance
    /\ r.ended # "instance_exists"
    /\ IF r.args.dry_run
       THEN /\ r.pc = "exit" /\ r.ended = "dry_run" /\ r.exit_code = 0
            /\ Len(r.calls) = 1
            /\ r.flag_writes = << >>
       ELSE \/ r.pc \in {"select_ads", "for_ad", "attempt", "sleep", "success"}
            \/ /\ r.pc = "exit"
               /\ r.ended \in {"no_ad_specified", "no_ads", "non_capacity",
                                "success", "exhausted"}

\* C26: a run whose list-instances call raised stands where a run stands
\* whose listing held no active instance: it has taken the dry-run exit, or
\* it went on to the zone selection and the creation attempts, whatever
\* instances exist; it has not written the sentinel unless it launched.
C26_LookupFailureMeansNone ==
    \A p \in Procs :
        LET r == proc[p] IN
        /\ Listed(r, {"raised"}) =>
              /\ AfterNothingFound(r)
              /\ r.flag_writes # << >> => r.ended = "success"
        /\ (Listed(r, {"ok"}) /\ ActiveInstances(CloudBefore(r)) = << >>) =>
              AfterNothingFound(r)

\* the lookup raised while a running instance existed, and the run launched
\* another one
C26_Witness ==
    \E p \in Procs :
        /\ Listed(proc[p], {"raised"})
        /\ ActiveInstances(CloudBefore(proc[p])) # << >>
        /\ Creates(proc[p]) # << >>
        /\ proc[p].ended = "success"
        /\ Len(ActiveInstances(cloud)) >= 2

\* ----------------------------------------------------------------- C27
\* the run got as far as the existing-instance check and has made it
PastCheck(r) == r.ended \in {"instance_exists", "dry_run"}

\* the check found a non-terminated instance while the sentinel was absent
FoundWithoutFlag(r) ==
    /\ r.pc = "exit"
    /\ Listed(r, {"ok"})
    /\ ActiveInstances(cloud) # << >>
    /\ ~r.flag_before.exists

\* C27 as stated: a --dry-run run that gets to the existing-instance check
\* issues the list-instances call; when it finds a non-terminated instance
\* while the sentinel is absent it exits 0 and the sentinel file is there;
\* in every other case the run leaves the sentinel as it met it.
C27_Original ==
    \A p \in Procs :
        LET r == proc[p] IN
        (Started(r) /\ r.args.dry_run) =>
            /\ PastCheck(r) => (r.calls # << >> /\ r.calls[1].op = "list_instances")
            /\ IF FoundWithoutFlag(r)
               THEN r.exit_code = 0 /\ FLAG_FILE.exists
               ELSE FLAG_FILE = r.flag_before

\* C27: a --dry-run run that gets to the existing-instance check issues the
\* list-instances call and nothing else; when it finds a non-terminated
\* instance while the sentinel is absent it calls create_success_flag once
\* with the id of the first such instance and exits 0, the sentinel then
\* holding that id, or being empty or still absent when the write raised;
\* in every other case the run leaves the sentinel as it met it.
C27_DryRunChecksFirst ==
    \A p \in Procs :
        LET r == proc[p] IN
        (Started(r) /\ r.args.dry_run) =>
            /\ PastCheck(r) => r.calls \in {<<Call("list_instances", None, None, res)>> :
                                                res \in {"ok", "raised"}}
            /\ IF FoundWithoutFlag(r)
               THEN /\ r.exit_code = 0
                    /\ r.ended = "instance_exists"
                    /\ Len(r.flag_writes) = 1
                    /\ FLAG_FILE =
                          CASE r.flag_writes[1] = "written" ->
                                  FlagContent(ActiveInstances(cloud)[1].id)
                            [] r.flag_writes[1] = "truncated" -> FlagContent(None)
                            [] OTHER -> r.flag_before
               ELSE /\ FLAG_FILE = r.flag_before
                    /\ r.flag_writes = << >>

\* a dry run met a terminated and a running instance and no sentinel, and
\* left the sentinel holding the running instance's id
C27_Witness ==
    \E p \in Procs :
        /\ proc[p].args.dry_run
        /\ FoundWithoutFlag(proc[p])
        /\ cloud[1].lifecycle_state = "TERMINATED"
        /\ proc[p].flag_writes = <<"written">>
        /\ FLAG_FILE = FlagContent(2)
        /\ proc[p].exit_code = 0

====
